---- MODULE Spec2Model ----
(***************************************************************************)
(* jpegen.py: the "java" subcommand of the PEG parser generator.           *)
(*                                                                         *)
(* The model follows generate_java_code, build_java_parser_and_generator   *)
(* and build_java_generator statement by statement.  Two invocations run   *)
(* side by side on the same environment; their command lines agree except  *)
(* for --compile-extension and --optimized, so that the effect of these    *)
(* two flags can be compared.  Every per-invocation variable is a function *)
(* over Runs.                                                              *)
(***************************************************************************)
EXTENDS Integers, Sequences, FiniteSets, TLC

\* Largest number of -v flags given on a command line.
MaxVerbose == 4

Runs == {1, 2}

\* Command-line inputs.
GrammarFiles == {"python.gram", "other.gram"}
TokensFiles == {"Tokens"}
OutOptions == {"absent", "gen/PyParser.java"}
OutputPaths == {"Parser.java", "gen/PyParser.java"}

\* What the environment does to the external calls of one invocation: at
\* most one of them fails.
Faults ==
  {"none", "grammar_missing", "grammar_invalid", "tokens_missing",
   "tokens_invalid", "output_unwritable", "generator_init", "generate"}

None == [kind |-> "None"]
NoErr == [type |-> "None", at |-> "None"]

\* Exceptions caught by "except Exception" (all are subclasses of Exception).
Exc(type, at) == [type |-> type, at |-> at]

VARIABLES
  env,          \* the fault the environment injects (shared by both runs)
  argv,         \* argv[r]: the command line of invocation r
  args,         \* args[r]: the argparse.Namespace handed to generate_java_code
  pc,           \* pc[r]: source line about to execute, or the way the call ended
  locals,       \* locals[r]: local variables and parameters of the three functions
  calls,        \* calls[r]: external calls made so far, with their arguments
  tok_file,     \* tok_file[r]: handle bound by "with open(tokens_file, 'r')"
  file,         \* file[r]: handle bound by "with open(output_file, 'w')"
  fs,           \* fs[r][p]: content of output path p as invocation r sees it
  err,          \* err[r]: exception in flight or propagated to the caller
  stderr,       \* stderr[r]: what was written to standard error
  result,       \* result[r]: value returned by generate_java_code
  exit_status   \* exit_status[r]: status passed to sys.exit, or -1

vars ==
  <<env, argv, args, pc, locals, calls, tok_file, file, fs, err, stderr,
    result, exit_status>>

----------------------------------------------------------------------------
\* Names bound in the module's global namespace when generate_java_code runs.
ModuleGlobals ==
  {"argparse", "sys", "Tuple", "__main__", "build", "Grammar", "Parser",
   "ParserGenerator", "Tokenizer", "JavaParserGenerator",
   "generate_java_code", "build_java_parser_and_generator",
   "build_java_generator", "java_parser"}

\* The argparse sub-parser "java": positional arguments, -o with its default,
\* three store_true flags, and the inherited counting -v flag.
java_parser(a) ==
  [grammar_filename  |-> a.grammar_filename,
   tokens_filename   |-> a.tokens_filename,
   output            |-> IF a.o = "absent" THEN "Parser.java" ELSE a.o,
   compile_extension |-> a.compile_extension,
   optimized         |-> a.optimized,
   skip_actions      |-> a.skip_actions,
   verbose           |-> a.v]

verbose_tokenizer(verbose) == verbose >= 3

verbose_parser_loose(verbose) == verbose >= 2
verbose_parser(verbose) == verbose = 2 \/ verbose >= 4

\* Binding of the parameters of build_java_parser_and_generator at its call.
build_java_parser_and_generator_params(a) ==
  [grammar_file              |-> a.grammar_filename,
   tokens_file               |-> a.tokens_filename,
   output_file               |-> a.output,
   compile_extension         |-> a.compile_extension,
   verbose_tokenizer         |-> verbose_tokenizer(a.verbose),
   verbose_parser            |-> verbose_parser(a.verbose),
   verbose_c_extension       |-> a.verbose,
   keep_asserts_in_extension |-> IF a.optimized THEN FALSE ELSE TRUE,
   skip_actions              |-> a.skip_actions]

\* Arguments of the build.build_parser call.
build_parser_args(l) ==
  [grammar_file      |-> l.grammar_file,
   verbose_tokenizer |-> l.verbose_tokenizer,
   verbose_parser    |-> l.verbose_parser]

\* Arguments of the JavaParserGenerator constructor call.
JavaParserGenerator_args_flagged(l, f) ==
  [grammar      |-> l.grammar,
   all_tokens   |-> l.all_tokens,
   exact_tokens |-> l.exact_tok,
   non_exact_tokens |-> l.non_exact_tok,
   file         |-> f.id,
   skip_actions |-> l.skip_actions \/ l.compile_extension]
JavaParserGenerator_args_default(l, f) ==
  [grammar      |-> l.grammar,
   all_tokens   |-> l.all_tokens,
   exact_tokens |-> l.exact_tok,
   non_exact_tokens |-> l.non_exact_tok,
   file         |-> f.id,
   skip_actions |-> FALSE]
JavaParserGenerator_args(l, f) ==
  [grammar      |-> l.grammar,
   all_tokens   |-> l.all_tokens,
   exact_tokens |-> l.exact_tok,
   non_exact_tokens |-> l.non_exact_tok,
   file         |-> f.id,
   skip_actions |-> l.skip_actions]

\* Argument of gen.generate.
generate_args(l) == [filename |-> l.grammar_file]

----------------------------------------------------------------------------
\* External collaborators.

\* build.build_parser: reads the grammar file and builds the three objects.
build_parser(e, a) ==
  IF e = "grammar_missing" THEN Exc("FileNotFoundError", "build_parser")
  ELSE IF e = "grammar_invalid" THEN Exc("SyntaxError", "build_parser")
  ELSE NoErr

build_parser_result(a) ==
  [grammar   |-> [kind |-> "Grammar", src |-> a.grammar_file],
   parser    |-> [kind |-> "Parser", src |-> a.grammar_file,
                  verbose |-> a.verbose_parser],
   tokenizer |-> [kind |-> "Tokenizer", src |-> a.grammar_file,
                  verbose |-> a.verbose_tokenizer]]

\* The builtin open.
open(e, path, mode) ==
  IF mode = "r" /\ e = "tokens_missing" THEN Exc("FileNotFoundError", "open_r")
  ELSE IF mode = "w" /\ e = "output_unwritable" THEN Exc("PermissionError", "open_w")
  ELSE NoErr

Handle(id, path, mode) == [id |-> id, path |-> path, mode |-> mode, closed |-> FALSE]
NoHandle == [id |-> "None", path |-> "None", mode |-> "None", closed |-> TRUE]
Close(h) == [h EXCEPT !.closed = TRUE]

\* build.generate_token_definitions.
generate_token_definitions(e) ==
  IF e = "tokens_invalid" THEN Exc("ValueError", "generate_token_definitions")
  ELSE NoErr

token_definitions(h) ==
  [all_tokens    |-> [kind |-> "all_tokens", src |-> h.path],
   exact_tok     |-> [kind |-> "exact_tokens", src |-> h.path],
   non_exact_tok |-> [kind |-> "non_exact_tokens", src |-> h.path]]

\* The JavaParserGenerator constructor and its generate method.
JavaParserGenerator(e) ==
  IF e = "generator_init" THEN Exc("GrammarError", "JavaParserGenerator")
  ELSE NoErr

generate(e) ==
  IF e = "generate" THEN Exc("GrammarError", "generate") ELSE NoErr

Generator(ctor_args) == [kind |-> "JavaParserGenerator", init |-> ctor_args]

\* File contents.
Untouched == [kind |-> "untouched"]
Empty == [kind |-> "empty"]
Partial == [kind |-> "partial"]
Generated(gen, a) == [kind |-> "generated", gen |-> gen.init, filename |-> a.filename]

----------------------------------------------------------------------------
NoLocals ==
  [grammar_file              |-> None,
   tokens_file               |-> None,
   output_file               |-> None,
   compile_extension         |-> None,
   verbose_tokenizer         |-> None,
   verbose_parser            |-> None,
   verbose_c_extension       |-> None,
   keep_asserts_in_extension |-> None,
   skip_actions              |-> None,
   grammar                   |-> None,
   parser                    |-> None,
   tokenizer                 |-> None,
   all_tokens                |-> None,
   exact_tok                 |-> None,
   non_exact_tok             |-> None,
   gen                       |-> None]

CommandLines ==
  [grammar_filename  : GrammarFiles,
   tokens_filename   : TokensFiles,
   o                 : OutOptions,
   compile_extension : BOOLEAN,
   optimized         : BOOLEAN,
   skip_actions      : BOOLEAN,
   v                 : 0..MaxVerbose]

\* Two command lines that differ at most in --compile-extension and --optimized.
SameButNoOpFlags(a, b) ==
  [a EXCEPT !.compile_extension = FALSE, !.optimized = FALSE] =
  [b EXCEPT !.compile_extension = FALSE, !.optimized = FALSE]

Init ==
  /\ env \in Faults
  /\ argv \in [Runs -> CommandLines]
  /\ SameButNoOpFlags(argv[1], argv[2])
  /\ args = [r \in Runs |-> java_parser(argv[r])]
  /\ pc = [r \in Runs |-> "L16"]
  /\ locals = [r \in Runs |-> NoLocals]
  /\ calls = [r \in Runs |-> <<>>]
  /\ tok_file = [r \in Runs |-> NoHandle]
  /\ file = [r \in Runs |-> NoHandle]
  /\ fs = [r \in Runs |-> [p \in OutputPaths |-> Untouched]]
  /\ err = [r \in Runs |-> NoErr]
  /\ stderr = [r \in Runs |-> <<>>]
  /\ result = [r \in Runs |-> None]
  /\ exit_status = [r \in Runs |-> -1]

----------------------------------------------------------------------------
Bind(l, p) == [k \in DOMAIN l |-> IF k \in DOMAIN p THEN p[k] ELSE l[k]]

Call(fn, a) == [fn |-> fn, args |-> a]

\* Binding of the parameters of build_java_generator at its call.
build_java_generator_params(l, grammar) ==
  [grammar                   |-> grammar,
   grammar_file              |-> l.grammar_file,
   tokens_file               |-> l.tokens_file,
   output_file               |-> l.output_file,
   compile_extension         |-> l.compile_extension,
   verbose_c_extension       |-> l.verbose_c_extension,
   keep_asserts_in_extension |-> l.keep_asserts_in_extension,
   skip_actions              |-> l.skip_actions]

\* generate_java_code up to the call of build_java_parser_and_generator.
Enter(r) ==
  /\ pc[r] = "L16"
  /\ locals' = [locals EXCEPT ![r] =
                  Bind(@, build_java_parser_and_generator_params(args[r]))]
  /\ pc' = [pc EXCEPT ![r] = "L66"]
  /\ UNCHANGED <<env, argv, args, calls, tok_file, file, fs, err, stderr,
                 result, exit_status>>

\* grammar, parser, tokenizer = build.build_parser(...), then the call of
\* build_java_generator.
BuildParser(r) ==
  /\ pc[r] = "L66"
  /\ LET a == build_parser_args(locals[r])
         e == build_parser(env, a)
         res == build_parser_result(a)
     IN /\ calls' = [calls EXCEPT ![r] = Append(@, Call("build_parser", a))]
        /\ IF e = NoErr
           THEN /\ locals' = [locals EXCEPT ![r] =
                     Bind(Bind(@, [parser |-> res.parser, tokenizer |-> res.tokenizer]),
                          build_java_generator_params(@, res.grammar))]
                /\ pc' = [pc EXCEPT ![r] = "L90"]
                /\ err' = err
           ELSE /\ err' = [err EXCEPT ![r] = e]
                /\ pc' = [pc EXCEPT ![r] = "L32"]
                /\ locals' = locals
  /\ UNCHANGED <<env, argv, args, tok_file, file, fs, stderr, result, exit_status>>

\* with open(tokens_file, "r") as tok_file:
OpenTokens(r) ==
  /\ pc[r] = "L90"
  /\ LET path == locals[r].tokens_file
         e == open(env, path, "r")
     IN /\ calls' = [calls EXCEPT ![r] =
                       Append(@, Call("open", [path |-> path, mode |-> "r"]))]
        /\ IF e = NoErr
           THEN /\ tok_file' = [tok_file EXCEPT ![r] = Handle("tok_file", path, "r")]
                /\ pc' = [pc EXCEPT ![r] = "L91"]
                /\ err' = err
           ELSE /\ err' = [err EXCEPT ![r] = e]
                /\ pc' = [pc EXCEPT ![r] = "L32"]
                /\ tok_file' = tok_file
  /\ UNCHANGED <<env, argv, args, locals, file, fs, stderr, result, exit_status>>

\* all_tokens, exact_tok, non_exact_tok = build.generate_token_definitions(tok_file)
GenerateTokenDefinitions(r) ==
  /\ pc[r] = "L91"
  /\ LET e == generate_token_definitions(env)
     IN /\ calls' = [calls EXCEPT ![r] =
                       Append(@, Call("generate_token_definitions",
                                      [tok_file |-> tok_file[r].id]))]
        /\ IF e = NoErr
           THEN /\ locals' = [locals EXCEPT ![r] = Bind(@, token_definitions(tok_file[r]))]
                /\ err' = err
           ELSE /\ err' = [err EXCEPT ![r] = e]
                /\ locals' = locals
        /\ pc' = [pc EXCEPT ![r] = "L91_exit"]
  /\ UNCHANGED <<env, argv, args, tok_file, file, fs, stderr, result, exit_status>>

\* Leaving the first with block: tok_file is closed, an exception in flight
\* goes on to the handler.
CloseTokens_unscoped(r) ==
  /\ pc[r] = "L91_exit"
  /\ pc' = [pc EXCEPT ![r] = IF err[r] = NoErr THEN "L92" ELSE "L32"]
  /\ UNCHANGED <<env, argv, args, locals, calls, tok_file, file, fs, err, stderr,
                 result, exit_status>>
CloseTokens_swallow(r) ==
  /\ pc[r] = "L91_exit"
  /\ tok_file' = [tok_file EXCEPT ![r] = Close(@)]
  /\ pc' = [pc EXCEPT ![r] = "L92"]
  /\ UNCHANGED <<env, argv, args, locals, calls, file, fs, err, stderr,
                 result, exit_status>>
CloseTokens(r) ==
  /\ pc[r] = "L91_exit"
  /\ tok_file' = [tok_file EXCEPT ![r] = Close(@)]
  /\ pc' = [pc EXCEPT ![r] = IF err[r] = NoErr THEN "L92" ELSE "L32"]
  /\ UNCHANGED <<env, argv, args, locals, calls, file, fs, err, stderr,
                 result, exit_status>>

\* with open(output_file, "w") as file: creates or truncates the file.
OpenOutput(r) ==
  /\ pc[r] = "L92"
  /\ LET path == locals[r].output_file
         e == open(env, path, "w")
     IN /\ calls' = [calls EXCEPT ![r] =
                       Append(@, Call("open", [path |-> path, mode |-> "w"]))]
        /\ IF e = NoErr
           THEN /\ file' = [file EXCEPT ![r] = Handle("file", path, "w")]
                /\ fs' = [fs EXCEPT ![r][path] = Empty]
                /\ pc' = [pc EXCEPT ![r] = "L93"]
                /\ err' = err
           ELSE /\ err' = [err EXCEPT ![r] = e]
                /\ pc' = [pc EXCEPT ![r] = "L32"]
                /\ UNCHANGED <<file, fs>>
  /\ UNCHANGED <<env, argv, args, locals, tok_file, stderr, result, exit_status>>

\* gen = JavaParserGenerator(grammar, all_tokens, exact_tok, non_exact_tok, file,
\*                           skip_actions=skip_actions)
Construct(r) ==
  /\ pc[r] = "L93"
  /\ LET a == JavaParserGenerator_args(locals[r], file[r])
         e == JavaParserGenerator(env)
     IN /\ calls' = [calls EXCEPT ![r] = Append(@, Call("JavaParserGenerator", a))]
        /\ IF e = NoErr
           THEN /\ locals' = [locals EXCEPT ![r] = Bind(@, [gen |-> Generator(a)])]
                /\ pc' = [pc EXCEPT ![r] = "L96"]
                /\ err' = err
           ELSE /\ err' = [err EXCEPT ![r] = e]
                /\ pc' = [pc EXCEPT ![r] = "L96_exit"]
                /\ locals' = locals
  /\ UNCHANGED <<env, argv, args, tok_file, file, fs, stderr, result, exit_status>>

\* gen.generate(grammar_file): writes the parser through the open handle.
Generate(r) ==
  /\ pc[r] = "L96"
  /\ LET a == generate_args(locals[r])
         e == generate(env)
         path == file[r].path
     IN /\ calls' = [calls EXCEPT ![r] = Append(@, Call("generate", a))]
        /\ IF e = NoErr
           THEN /\ fs' = [fs EXCEPT ![r][path] = Generated(locals[r].gen, a)]
                /\ err' = err
           ELSE /\ fs' = [fs EXCEPT ![r][path] = Partial]
                /\ err' = [err EXCEPT ![r] = e]
        /\ pc' = [pc EXCEPT ![r] = "L96_exit"]
  /\ UNCHANGED <<env, argv, args, locals, tok_file, file, stderr, result, exit_status>>

\* Leaving the second with block: file is closed, an exception in flight goes
\* on to the handler.
CloseOutput_leak(r) ==
  /\ pc[r] = "L96_exit"
  /\ pc' = [pc EXCEPT ![r] = IF err[r] = NoErr THEN "L97" ELSE "L32"]
  /\ UNCHANGED <<env, argv, args, locals, calls, tok_file, file, fs, err, stderr,
                 result, exit_status>>
CloseOutput(r) ==
  /\ pc[r] = "L96_exit"
  /\ file' = [file EXCEPT ![r] = Close(@)]
  /\ pc' = [pc EXCEPT ![r] = IF err[r] = NoErr THEN "L97" ELSE "L32"]
  /\ UNCHANGED <<env, argv, args, locals, calls, tok_file, fs, err, stderr,
                 result, exit_status>>

\* return gen; return grammar, parser, tokenizer, gen (twice, unchanged).
Return(r) ==
  /\ pc[r] = "L97"
  /\ result' = [result EXCEPT ![r] =
                  [kind |-> "tuple",
                   items |-> <<locals[r].grammar, locals[r].parser,
                               locals[r].tokenizer, locals[r].gen>>]]
  /\ pc' = [pc EXCEPT ![r] = "returned"]
  /\ UNCHANGED <<env, argv, args, locals, calls, tok_file, file, fs, err, stderr,
                 exit_status>>

\* traceback.print_exception(err.__class__, err, None): type and message only.
Summary(e) == [stream |-> "print_exception", type |-> e.type, tb |-> "None"]
Hint == [stream |-> "write", text |-> "For full traceback, use -v\n"]

\* except Exception as err: the whole handler.
ExceptHandler_always_exit(r) ==
  /\ pc[r] = "L32"
  /\ stderr' = [stderr EXCEPT ![r] = Append(Append(@, Summary(err[r])), Hint)]
  /\ exit_status' = [exit_status EXCEPT ![r] = 1]
  /\ pc' = [pc EXCEPT ![r] = "exited"]
  /\ UNCHANGED <<env, argv, args, locals, calls, tok_file, file, fs, err, result>>
ExceptHandler_retry(r) ==
  /\ pc[r] = "L32"
  /\ IF args[r].verbose # 0
     THEN /\ pc' = [pc EXCEPT ![r] = "raised"]
          /\ err' = err
     ELSE /\ pc' = [pc EXCEPT ![r] = "L66"]
          /\ err' = [err EXCEPT ![r] = NoErr]
  /\ UNCHANGED <<env, argv, args, locals, calls, tok_file, file, fs, stderr,
                 result, exit_status>>
ExceptHandler(r) ==
  /\ pc[r] = "L32"
  /\ IF args[r].verbose # 0
     THEN \* raise
          /\ pc' = [pc EXCEPT ![r] = "raised"]
          /\ UNCHANGED <<err, stderr, exit_status>>
     ELSE IF "traceback" \in ModuleGlobals
     THEN /\ stderr' = [stderr EXCEPT ![r] = Append(Append(@, Summary(err[r])), Hint)]
          /\ exit_status' = [exit_status EXCEPT ![r] = 1]
          /\ pc' = [pc EXCEPT ![r] = "exited"]
          /\ err' = err
     ELSE \* the name traceback is not bound: NameError leaves the handler
          /\ err' = [err EXCEPT ![r] = Exc("NameError", "L35")]
          /\ pc' = [pc EXCEPT ![r] = "raised"]
          /\ UNCHANGED <<stderr, exit_status>>
  /\ UNCHANGED <<env, argv, args, locals, calls, tok_file, file, fs, result>>

Next ==
  \E r \in Runs :
    \/ Enter(r)
    \/ BuildParser(r)
    \/ OpenTokens(r)
    \/ GenerateTokenDefinitions(r)
    \/ CloseTokens(r)
    \/ OpenOutput(r)
    \/ Construct(r)
    \/ Generate(r)
    \/ CloseOutput(r)
    \/ Return(r)
    \/ ExceptHandler(r)

Spec == Init /\ [][Next]_vars

Terminated(r) == pc[r] \in {"returned", "raised", "exited"}

----------------------------------------------------------------------------
\* What the environment answered to a recorded external call.
CallExc(c) ==
  CASE c.fn = "build_parser" -> build_parser(env, c.args)
    [] c.fn = "open" -> open(env, c.args.path, c.args.mode)
    [] c.fn = "generate_token_definitions" -> generate_token_definitions(env)
    [] c.fn = "JavaParserGenerator" -> JavaParserGenerator(env)
    [] c.fn = "generate" -> generate(env)

\* The exception raised by the last external call of run r (NoErr if none).
Thrown(r) ==
  IF calls[r] = <<>> THEN NoErr ELSE CallExc(calls[r][Len(calls[r])])

CallsOf(r, fn) == {i \in 1..Len(calls[r]) : calls[r][i].fn = fn}

OpenCalls(r, mode) ==
  {i \in CallsOf(r, "open") : calls[r][i].args.mode = mode}

\* The output path the command line asks for.
RequestedOutput(r) == IF argv[r].o = "absent" THEN "Parser.java" ELSE argv[r].o

----------------------------------------------------------------------------
\* C1: whenever an external call raised and verbose is 0, generate_java_code
\* ends by sys.exit(1) after writing the exception summary and then the hint
\* "For full traceback, use -v" to standard error; no exception reaches the
\* caller.
C1_NonVerboseSummaryThenExit ==
  \A r \in Runs :
    (Terminated(r) /\ args[r].verbose = 0 /\ Thrown(r) # NoErr) =>
      /\ pc[r] = "exited"
      /\ exit_status[r] = 1
      /\ stderr[r] = <<Summary(Thrown(r)), Hint>>

\* C2: whenever an external call raised and verbose is at least 1, the very
\* exception that call raised reaches the caller, nothing is written to
\* standard error and sys.exit is not called.
C2_VerboseReraises ==
  \A r \in Runs :
    (Terminated(r) /\ args[r].verbose >= 1 /\ Thrown(r) # NoErr) =>
      /\ pc[r] = "raised"
      /\ err[r] = Thrown(r)
      /\ stderr[r] = <<>>
      /\ exit_status[r] = -1

C2_Witness ==
  \E r \in Runs :
    /\ pc[r] = "raised"
    /\ args[r].verbose >= 1
    /\ err[r] = Exc("GrammarError", "generate")

\* C3: when no external call fails, generate_java_code returns (grammar, parser,
\* tokenizer, gen) with the objects build_parser returned and the generator
\* that was constructed, raises nothing, does not exit, and has opened the
\* requested output path (Parser.java by default) for writing and closed it.
C3_SuccessReturnsTuple ==
  \A r \in Runs :
    (Terminated(r) /\ env = "none") =>
      /\ pc[r] = "returned"
      /\ err[r] = NoErr
      /\ exit_status[r] = -1
      /\ stderr[r] = <<>>
      /\ \E i \in OpenCalls(r, "w") : calls[r][i].args.path = RequestedOutput(r)
      /\ file[r].path = RequestedOutput(r)
      /\ file[r].mode = "w"
      /\ file[r].closed
      /\ \E i \in CallsOf(r, "build_parser"), j \in CallsOf(r, "JavaParserGenerator") :
           LET b == build_parser_result(calls[r][i].args)
           IN result[r].items =
                <<b.grammar, b.parser, b.tokenizer, Generator(calls[r][j].args)>>

C3_Witness ==
  \E r \in Runs :
    /\ pc[r] = "returned"
    /\ argv[r].o = "absent"
    /\ file[r].path = "Parser.java"
    /\ file[r].closed
    /\ result[r].items[4].kind = "JavaParserGenerator"

\* C4: a missing grammar file makes build_parser raise FileNotFoundError; with
\* verbose 0 the run ends by the summary, the hint and sys.exit(1), with
\* verbose at least 1 the FileNotFoundError itself reaches the caller.
C4_MissingGrammarReported ==
  \A r \in Runs :
    (Terminated(r) /\ env = "grammar_missing") =>
      /\ Thrown(r) = Exc("FileNotFoundError", "build_parser")
      /\ args[r].verbose = 0 =>
           /\ pc[r] = "exited"
           /\ exit_status[r] = 1
           /\ stderr[r] = <<Summary(Thrown(r)), Hint>>
      /\ args[r].verbose >= 1 =>
           /\ pc[r] = "raised"
           /\ err[r] = Thrown(r)

C6_GeneratorConstruction ==
  \A r \in Runs :
    /\ \A j \in CallsOf(r, "JavaParserGenerator") :
         LET a == calls[r][j].args
             t == token_definitions(Handle("tok_file", argv[r].tokens_filename, "r"))
         IN /\ a.skip_actions = argv[r].skip_actions
            /\ \E i \in CallsOf(r, "build_parser") :
                 /\ i < j
                 /\ a.grammar = build_parser_result(calls[r][i].args).grammar
            /\ \E i \in CallsOf(r, "generate_token_definitions") :
                 /\ i < j
                 /\ calls[r][i].args.tok_file = "tok_file"
            /\ a.all_tokens = t.all_tokens
            /\ a.exact_tokens = t.exact_tok
            /\ a.non_exact_tokens = t.non_exact_tok
            /\ a.file = file[r].id
            /\ file[r].path = RequestedOutput(r)
            /\ file[r].mode = "w"
            /\ (Terminated(r) /\ CallExc(calls[r][j]) = NoErr) =>
                 /\ j < Len(calls[r])
                 /\ calls[r][j + 1].fn = "generate"
    /\ \A j \in CallsOf(r, "generate") :
         /\ calls[r][j].args.filename = argv[r].grammar_filename
         /\ j > 1
         /\ calls[r][j - 1].fn = "JavaParserGenerator"

C6_Witness ==
  \E r \in Runs :
    /\ argv[r].skip_actions
    /\ argv[r].grammar_filename = "other.gram"
    /\ CallsOf(r, "JavaParserGenerator") # {}
    /\ CallsOf(r, "generate") # {}

\* C7: the external calls of a run are a prefix of build_parser, open(tokens,
\* "r"), generate_token_definitions, open(output, "w"), JavaParserGenerator,
\* generate; every call but the last one succeeded; once a call has raised no
\* further call is made; a run that returns made all six, each exactly once.
CallOrder ==
  <<"build_parser", "open", "generate_token_definitions", "open",
    "JavaParserGenerator", "generate">>

C7_FixedOrder ==
  \A r \in Runs :
    /\ Len(calls[r]) <= Len(CallOrder)
    /\ \A i \in 1..Len(calls[r]) :
         /\ calls[r][i].fn = CallOrder[i]
         /\ i = 2 => calls[r][i].args.mode = "r"
         /\ i = 4 => calls[r][i].args.mode = "w"
         /\ i < Len(calls[r]) => CallExc(calls[r][i]) = NoErr
    /\ pc[r] = "returned" => Len(calls[r]) = Len(CallOrder)
    /\ (Terminated(r) /\ pc[r] # "returned") => Thrown(r) # NoErr

C7_Witness ==
  \E r \in Runs :
    /\ pc[r] = "returned"
    /\ Cardinality(CallsOf(r, "generate")) = 1
    /\ Len(calls[r]) = 6

\* C8: at most one of the two handles is open at any time, the output handle
\* is opened only after the tokens handle was opened and closed, every
\* finished run has both handles closed, and the generator returned on
\* success refers to the output handle, which is closed.
C8_HandlesScoped ==
  \A r \in Runs :
    /\ ~(~tok_file[r].closed /\ ~file[r].closed)
    /\ file[r].id # "None" => (tok_file[r].id # "None" /\ tok_file[r].closed)
    /\ Terminated(r) => (tok_file[r].closed /\ file[r].closed)
    /\ pc[r] = "returned" =>
         /\ result[r].items[4].init.file = file[r].id
         /\ file[r].id = "file"
         /\ file[r].closed

C8_Witness ==
  \E r \in Runs :
    /\ pc[r] = "raised"
    /\ env = "generate"
    /\ file[r].id = "file"
    /\ file[r].closed
    /\ tok_file[r].id = "tok_file"
    /\ tok_file[r].closed

\* C9: if build_parser, the opening of the tokens file or
\* generate_token_definitions raised, the output file is never opened and no
\* output path is touched; the output file is opened only after the token
\* definitions were loaded; a failure of the constructor leaves the output
\* file truncated and a failure of generate leaves it partially written.
C9_OutputOpenedLate ==
  \A r \in Runs :
    /\ (\E i \in 1..Len(calls[r]) :
          /\ i <= 3
          /\ CallExc(calls[r][i]) # NoErr) =>
         /\ OpenCalls(r, "w") = {}
         /\ file[r].id = "None"
         /\ \A p \in OutputPaths : fs[r][p] = Untouched
    /\ \A j \in OpenCalls(r, "w") :
         /\ \E i \in CallsOf(r, "generate_token_definitions") :
              i < j /\ CallExc(calls[r][i]) = NoErr
         /\ locals[r].all_tokens # None
    /\ (\E p \in OutputPaths : fs[r][p] # Untouched) => OpenCalls(r, "w") # {}
    /\ (Terminated(r) /\ env = "generator_init") => fs[r][RequestedOutput(r)] = Empty
    /\ (Terminated(r) /\ env = "generate") => fs[r][RequestedOutput(r)] = Partial

C9_Witness ==
  \E r \in Runs :
    /\ Terminated(r)
    /\ env = "tokens_invalid"
    /\ Len(calls[r]) = 3
    /\ fs[r]["Parser.java"] = Untouched

====
